---- MODULE Spec2Model ----
(***************************************************************************)
(* Model of src/src/anet_archive.rs: AnetArchive::load_from_file,          *)
(* load_from_reader (read_header, read_mft_header, read_mft_data,          *)
(* read_mft_index) and AnetArchive::get_mft_data.                          *)
(*                                                                         *)
(* The archive file is the environment: what each read finds in it is      *)
(* chosen with \E at the step that reads it.  A Rust panic (panic!,        *)
(* Option::unwrap on None, Result::unwrap on Err, slice index out of       *)
(* bounds) is the outcome "Panic"; an io::Error returned through `?` is    *)
(* one of the "Err_*" outcomes.                                            *)
(***************************************************************************)
EXTENDS Integers, Sequences, FiniteSets, TLC

\* ---- bounds of the model ------------------------------------------------
MaxEntries == 2      \* largest num_entries an MFT header carries
MaxPairs   == 3      \* largest number of raw IdPair records in the id table
MaxId      == 2      \* largest file_id value of a raw IdPair

\* ---- program constants --------------------------------------------------
DAT_MAGIC_NUMBER    == 3
MFT_ENTRY_INDEX_NUM == 1
SizeOfAnetIdEntry   == 8
check_magic         == <<65, 78, 26>>      \* [0x41, 0x4e, 0x1a]

\* ---- input domains ------------------------------------------------------
Identifiers == {check_magic, <<65, 78, 27>>, <<0, 0, 0>>}
MftOffsets  == {40, 64}
Paths       == {"LOCAL.DAT", "Local.txt"}
\* size field of the entry that holds the id table: the multiples of 8 and
\* one value between two of them, where the division truncates
IdTableSizes == {8 * k : k \in 0 .. MaxPairs} \cup {12}
DataSizes    == {8}
PairValues   == [file_id : 0 .. MaxId, base_id : 0 .. MaxEntries]

EntryValues(pos) ==
    IF pos = MFT_ENTRY_INDEX_NUM + 1
    THEN [offset : {64}, size : IdTableSizes]
    ELSE [offset : {64}, size : DataSizes]

EntrySeqs(n) ==
    {s \in [1 .. n -> UNION {EntryValues(p) : p \in 1 .. 2}] :
        \A p \in 1 .. n : s[p] \in EntryValues(p)}

\* ---- outcomes -----------------------------------------------------------
Errs == {"Err_InvalidInput", "Err_Io", "Err_UnexpectedEof"}
IsErr(r) == r \in Errs

LoadOrder == <<"read_header", "read_mft_header", "read_mft_data", "read_mft_index">>

VARIABLES
    pc,              \* position of the load: the step that runs next, or "done"
    result,          \* what the caller of load_from_file receives
    steps,           \* the decoding steps entered so far, in order
    dat_header,      \* AnetArchive.dat_header (identifier, mft_offset)
    mft_header,      \* AnetArchive.mft_header (num_entries)
    mft_data,        \* AnetArchive.mft_data
    file_id_table,   \* local file_id_table of read_mft_index
    mft_index_data,  \* AnetArchive.mft_index_data
    i,               \* number of raw pairs the fold loop has processed
    fetch            \* the last get_mft_data call and what it returned

vars == <<pc, result, steps, dat_header, mft_header, mft_data,
          file_id_table, mft_index_data, i, fetch>>

NoFetch == [index |-> 0, result |-> "none", len |-> 0]

\* AnetArchive::default()
Init ==
    /\ pc = "load_from_file"
    /\ result = "none"
    /\ steps = <<>>
    /\ dat_header = [identifier |-> <<>>, mft_offset |-> 0]
    /\ mft_header = [num_entries |-> 0]
    /\ mft_data = <<>>
    /\ file_id_table = <<>>
    /\ mft_index_data = <<>>
    /\ i = 0
    /\ fetch = NoFetch

\* str::to_lowercase on the paths of the model
to_lowercase(p) ==
    CASE p = "LOCAL.DAT" -> "local.dat"
      [] p = "Local.txt" -> "local.txt"
      [] OTHER -> p

ends_with_dat(p) == p = "local.dat"

Finish(r) ==
    /\ pc' = "done"
    /\ result' = r

\* load_from_file: extension check, File::open, then load_from_reader
load_from_file ==
    /\ pc = "load_from_file"
    /\ \E path \in Paths, opens \in BOOLEAN :
          IF ~ends_with_dat(to_lowercase(path))
          THEN Finish("Err_InvalidInput")
          ELSE IF ~opens
               THEN Finish("Err_Io")
               ELSE pc' = "read_header" /\ result' = result
    /\ UNCHANGED <<steps, dat_header, mft_header, mft_data,
                   file_id_table, mft_index_data, i, fetch>>

\* read_header: a short read returns the io::Error; a complete header with
\* the wrong identifier reaches panic!
read_header ==
    /\ pc = "read_header"
    /\ steps' = Append(steps, "read_header")
    /\ \E got \in {"nothing", "identifier", "all"},
          ident \in Identifiers, off \in MftOffsets :
          CASE got = "nothing" ->
                  /\ dat_header' = dat_header
                  /\ Finish("Err_UnexpectedEof")
            [] got = "identifier" ->
                  /\ dat_header' = [dat_header EXCEPT !.identifier = ident]
                  /\ Finish("Err_UnexpectedEof")
            [] got = "all" ->
                  /\ dat_header' = [identifier |-> ident, mft_offset |-> off]
                  /\ IF ident # check_magic
                     THEN Finish("Panic")
                     ELSE pc' = "read_mft_header" /\ result' = result
    /\ UNCHANGED <<mft_header, mft_data, file_id_table, mft_index_data, i, fetch>>

\* read_mft_header: seek to mft_offset, read the MFT header; no magic check
read_mft_header ==
    /\ pc = "read_mft_header"
    /\ steps' = Append(steps, "read_mft_header")
    /\ \E short \in BOOLEAN, n \in 0 .. MaxEntries :
          IF short
          THEN /\ mft_header' = mft_header
               /\ Finish("Err_UnexpectedEof")
          ELSE /\ mft_header' = [num_entries |-> n]
               /\ pc' = "read_mft_data"
               /\ result' = result
    /\ UNCHANGED <<dat_header, mft_data, file_id_table, mft_index_data, i, fetch>>

\* read_mft_data: num_entries records pushed in on-disk order; a truncated
\* source stops after the records it could read
read_mft_data ==
    /\ pc = "read_mft_data"
    /\ steps' = Append(steps, "read_mft_data")
    /\ \E got \in 0 .. mft_header.num_entries :
       \E entries \in EntrySeqs(got) :
          /\ mft_data' = entries
          /\ IF got < mft_header.num_entries
             THEN Finish("Err_UnexpectedEof")
             ELSE pc' = "read_mft_index" /\ result' = result
    /\ UNCHANGED <<dat_header, mft_header, file_id_table, mft_index_data, i, fetch>>

\* usize division of line 389-390
num_file_id_entries(size) == size \div SizeOfAnetIdEntry

\* the zero-filled index of lines 402-407
ZeroIndex(n) == [k \in 1 .. n |-> [file_id |-> 0, base_id |-> 0]]

\* read_mft_index up to the fold loop: entry 1 gives the pair count and the
\* seek position, the raw pairs are read, the index is zero-filled
read_mft_index ==
    /\ pc = "read_mft_index"
    /\ steps' = Append(steps, "read_mft_index")
    /\ IF Len(mft_data) < MFT_ENTRY_INDEX_NUM + 1
       THEN \* self.mft_data.get(1).unwrap() on None
            /\ Finish("Panic")
            /\ UNCHANGED <<file_id_table, mft_index_data>>
       ELSE LET n == num_file_id_entries(mft_data[MFT_ENTRY_INDEX_NUM + 1].size)
            IN \E got \in 0 .. n :
               \E table \in [1 .. got -> PairValues] :
                  /\ file_id_table' = table
                  /\ IF got < n
                     THEN /\ Finish("Err_UnexpectedEof")
                          /\ mft_index_data' = mft_index_data
                     ELSE /\ mft_index_data' = ZeroIndex(Len(mft_data))
                          /\ pc' = "fold"
                          /\ result' = result
    /\ i' = 0
    /\ UNCHANGED <<dat_header, mft_header, mft_data, fetch>>

\* Assign with the two fields filled in the opposite order
AssignFileFirst(slot, pair) ==
    IF slot.file_id = 0
    THEN [slot EXCEPT !.file_id = pair.file_id]
    ELSE IF slot.base_id = 0
         THEN [slot EXCEPT !.base_id = pair.file_id]
         ELSE slot

\* Assign that overwrites file_id of a full slot instead of dropping
AssignOverwrite(slot, pair) ==
    IF slot.base_id = 0
    THEN [slot EXCEPT !.base_id = pair.file_id]
    ELSE [slot EXCEPT !.file_id = pair.file_id]

\* Assign that skips a file_id the slot already holds
AssignDistinct(slot, pair) ==
    IF slot.base_id = 0
    THEN [slot EXCEPT !.base_id = pair.file_id]
    ELSE IF slot.file_id = 0 /\ pair.file_id # slot.base_id
         THEN [slot EXCEPT !.file_id = pair.file_id]
         ELSE slot

\* lines 412-416: the first write goes to base_id, the second to file_id,
\* a full slot drops the incoming file_id
Assign(slot, pair) ==
    IF slot.base_id = 0
    THEN [slot EXCEPT !.base_id = pair.file_id]
    ELSE IF slot.file_id = 0
         THEN [slot EXCEPT !.file_id = pair.file_id]
         ELSE slot

\* Canonicalize without the swap
CanonicalizeNoSwap(slot) == slot

\* Canonicalize that swaps without testing that both fields are set
CanonicalizeAlways(slot) ==
    IF slot.base_id > slot.file_id
    THEN [base_id |-> slot.file_id, file_id |-> slot.base_id]
    ELSE slot

\* lines 418-422: swap when both fields are set and out of order
Canonicalize(slot) ==
    IF slot.base_id > 0 /\ slot.file_id > 0
    THEN IF slot.base_id > slot.file_id
         THEN [base_id |-> slot.file_id, file_id |-> slot.base_id]
         ELSE slot
    ELSE slot

FoldPair(slot, pair) == Canonicalize(Assign(slot, pair))

\* one iteration of the loop of lines 409-423; entry_index is 0-based
fold_step ==
    /\ pc = "fold"
    /\ i < Len(file_id_table)
    /\ LET pair == file_id_table[i + 1]
           entry_index == pair.base_id
       IN IF entry_index >= Len(mft_index_data)
          THEN \* self.mft_index_data[entry_index] out of bounds
               /\ Finish("Panic")
               /\ UNCHANGED <<mft_index_data, i>>
          ELSE /\ mft_index_data' =
                     [mft_index_data EXCEPT ![entry_index + 1] = FoldPair(@, pair)]
               /\ i' = i + 1
               /\ UNCHANGED <<pc, result>>
    /\ UNCHANGED <<steps, dat_header, mft_header, mft_data, file_id_table, fetch>>

\* the loop ends: read_mft_index returns Ok(self), load_from_reader Ok(archive)
fold_done ==
    /\ pc = "fold"
    /\ i = Len(file_id_table)
    /\ Finish("Ok")
    /\ UNCHANGED <<steps, dat_header, mft_header, mft_data,
                   file_id_table, mft_index_data, i, fetch>>

FetchResult(index, r, n) == [index |-> index, result |-> r, len |-> n]

\* get_mft_data on a loaded archive (mft_read_data included); a panic of an
\* earlier call has ended the process
get_mft_data ==
    /\ pc = "done"
    /\ result = "Ok"
    /\ fetch.result # "Panic"
    /\ \E index \in 0 .. MaxEntries, path \in Paths :
          IF ~ends_with_dat(to_lowercase(path))
          THEN fetch' = FetchResult(index, "Err_InvalidInput", 0)
          ELSE \E opens \in BOOLEAN :
             IF ~opens
             THEN fetch' = FetchResult(index, "Err_Io", 0)
             ELSE IF index >= Len(mft_data)
             THEN \* self.mft_data[index] out of bounds
                  fetch' = FetchResult(index, "Panic", 0)
             ELSE \E short \in BOOLEAN :
                IF short
                THEN \* read_exact(..).unwrap() on Err
                     fetch' = FetchResult(index, "Panic", 0)
                ELSE fetch' = FetchResult(index, "Ok", mft_data[index + 1].size)
    /\ UNCHANGED <<pc, result, steps, dat_header, mft_header, mft_data,
                   file_id_table, mft_index_data, i>>

Next ==
    \/ load_from_file
    \/ read_header
    \/ read_mft_header
    \/ read_mft_data
    \/ read_mft_index
    \/ fold_step
    \/ fold_done
    \/ get_mft_data

Spec == Init /\ [][Next]_vars

TypeOK ==
    /\ pc \in {"load_from_file", "read_header", "read_mft_header",
               "read_mft_data", "read_mft_index", "fold", "done"}
    /\ result \in {"none", "Ok", "Panic"} \cup Errs
    /\ i \in 0 .. MaxPairs

\* ---- helpers of the properties -------------------------------------------
Empty == [file_id |-> 0, base_id |-> 0]

\* positions, among the first n raw pairs, of the pairs whose base_id is b
Addressing(b, n) == {j \in 1 .. n : file_id_table[j].base_id = b}

\* the non-zero file_id values of the first n raw pairs addressing slot b,
\* in on-disk order
RECURSIVE NonZeroIds(_, _)
NonZeroIds(b, n) ==
    IF n = 0 THEN <<>>
    ELSE IF file_id_table[n].base_id = b /\ file_id_table[n].file_id # 0
         THEN Append(NonZeroIds(b, n - 1), file_id_table[n].file_id)
         ELSE NonZeroIds(b, n - 1)

Min2(x, y) == IF x <= y THEN x ELSE y
Max2(x, y) == IF x <= y THEN y ELSE x

\* the slot that keeps the first two values of ids, repeated or not
FirstTwo(ids) ==
    IF Len(ids) = 0 THEN Empty
    ELSE IF Len(ids) = 1 THEN [base_id |-> ids[1], file_id |-> 0]
    ELSE [base_id |-> Min2(ids[1], ids[2]), file_id |-> Max2(ids[1], ids[2])]

\* the slot that keeps the first two distinct values of ids
FirstTwoDistinct(ids) ==
    LET others == SelectSeq(ids, LAMBDA x : x # ids[1])
    IN IF Len(ids) = 0 THEN Empty
       ELSE IF Len(others) = 0 THEN [base_id |-> ids[1], file_id |-> 0]
       ELSE [base_id |-> Min2(ids[1], others[1]), file_id |-> Max2(ids[1], others[1])]

\* the fold loop is about to process an in-range raw pair
Folding ==
    /\ pc = "fold"
    /\ i < Len(file_id_table)
    /\ file_id_table[i + 1].base_id < Len(mft_index_data)

CurPair == file_id_table[i + 1]
CurSlot == mft_index_data[CurPair.base_id + 1]

\* a step changes no slot but the one the current pair addresses
OnlyAddressedSlotChanges ==
    \A k \in 1 .. Len(mft_index_data) :
        (Len(mft_index_data') = Len(mft_index_data) /\ mft_index_data'[k] # mft_index_data[k])
            => (Folding /\ k = CurPair.base_id + 1)

\* the id table was read in full
TableComplete ==
    /\ Len(mft_data) >= MFT_ENTRY_INDEX_NUM + 1
    /\ Len(file_id_table) = num_file_id_entries(mft_data[MFT_ENTRY_INDEX_NUM + 1].size)

\* ---- C1 -------------------------------------------------------------------
\* C1: once read_header has run on a header whose identifier differs from
\* {0x41, 0x4E, 0x1A}, the caller holds an error value (never a panic).
C1_BadMagicIsError ==
    (Len(steps) >= 1 /\ dat_header.identifier # check_magic) => IsErr(result)

\* ---- C2 -------------------------------------------------------------------
\* C2: when read_mft_index has run on an entry sequence of fewer than 2
\* entries, the caller holds an error value and no id-table read was made.
C2_TooFewEntriesIsError ==
    (Len(steps) = 4 /\ Len(mft_data) < 2)
        => (IsErr(result) /\ file_id_table = <<>>)

\* ---- C3 -------------------------------------------------------------------
\* C3: a get_mft_data call with index >= the number of MFT entries returns
\* an error value to the caller.
C3_FetchOutOfRangeIsError ==
    (fetch.result # "none" /\ fetch.index >= Len(mft_data)) => IsErr(fetch.result)

\* ---- C4 -------------------------------------------------------------------
\* C4: when the id table holds a raw pair whose base_id is >= the number of
\* MFT entries, the finished load has returned an error value.
C4_BaseIdOutOfRangeIsError ==
    (/\ pc = "done"
     /\ Len(steps) = 4
     /\ TableComplete
     /\ \E j \in 1 .. Len(file_id_table) : file_id_table[j].base_id >= Len(mft_data))
        => IsErr(result)

\* ---- C5 -------------------------------------------------------------------
\* C5: after folding any prefix of the raw pairs, every slot whose base_id
\* and file_id are both non-zero has base_id <= file_id.
C5_CanonicalOrder ==
    \A k \in 1 .. Len(mft_index_data) :
        (mft_index_data[k].base_id # 0 /\ mft_index_data[k].file_id # 0)
            => mft_index_data[k].base_id <= mft_index_data[k].file_id

\* a slot that received a larger file_id before a smaller one and was swapped
C5_Witness ==
    \E a \in 1 .. i, b \in 1 .. i :
        /\ a < b
        /\ file_id_table[a].base_id = file_id_table[b].base_id
        /\ Addressing(file_id_table[a].base_id, b) = {a, b}
        /\ file_id_table[a].file_id > file_id_table[b].file_id
        /\ file_id_table[b].file_id > 0
        /\ mft_index_data[file_id_table[a].base_id + 1] =
              [base_id |-> file_id_table[b].file_id, file_id |-> file_id_table[a].file_id]

\* ---- C6 -------------------------------------------------------------------
\* C6 as stated: a raw pair (file_id = a, base_id = b) with a > b folded into
\* an empty slot leaves the slot with base_id <= file_id.
C6_EmptySlotOrdered ==
    [][(Folding /\ CurPair.file_id > CurPair.base_id /\ CurSlot = Empty)
          => mft_index_data'[CurPair.base_id + 1].base_id
                <= mft_index_data'[CurPair.base_id + 1].file_id]_vars

\* C6 amended: a raw pair (file_id = a, base_id = b) with a > b folded into
\* an empty slot leaves the slot as (base_id = a, file_id = 0).
C6_EmptySlotTakesBaseId ==
    [][(Folding /\ CurPair.file_id > CurPair.base_id /\ CurSlot = Empty)
          => mft_index_data'[CurPair.base_id + 1] =
                [base_id |-> CurPair.file_id, file_id |-> 0]]_vars

\* the first pair addressing its slot has file_id > base_id and was folded
C6_Witness ==
    /\ pc = "fold"
    /\ i >= 1
    /\ file_id_table[i].file_id > file_id_table[i].base_id
    /\ Addressing(file_id_table[i].base_id, i) = {i}
    /\ mft_index_data[file_id_table[i].base_id + 1].base_id = file_id_table[i].file_id
    /\ mft_index_data[file_id_table[i].base_id + 1].file_id = 0

\* ---- C7 -------------------------------------------------------------------
\* the current pair is the third raw pair carrying its base_id
ThirdOfItsBaseId ==
    /\ pc = "fold"
    /\ i < Len(file_id_table)
    /\ Cardinality(Addressing(CurPair.base_id, i)) = 2

\* C7 as stated: folding the third raw pair of a base_id, whatever the
\* file_id values, leaves the index as it was after the second and raises
\* no error.
C7_ThirdPairDropped ==
    [][ThirdOfItsBaseId
          => (mft_index_data' = mft_index_data /\ pc' = "fold")]_vars

\* C7 amended: folding the third raw pair of a base_id, when the first two
\* pairs of that base_id carry non-zero file_id values, leaves the index as
\* it was after the second and raises no error.
C7_ThirdPairDroppedAfterTwoNonZero ==
    [][(/\ ThirdOfItsBaseId
        /\ \A j \in Addressing(CurPair.base_id, i) : file_id_table[j].file_id # 0)
          => (mft_index_data' = mft_index_data /\ pc' = "fold")]_vars

\* three pairs of one base_id were folded, the third carrying a file_id that
\* neither of the first two carries
C7_Witness ==
    /\ i >= 3
    /\ file_id_table[1].base_id = file_id_table[3].base_id
    /\ file_id_table[2].base_id = file_id_table[3].base_id
    /\ file_id_table[1].file_id # 0
    /\ file_id_table[2].file_id # 0
    /\ file_id_table[3].file_id \notin {0, file_id_table[1].file_id, file_id_table[2].file_id}
    /\ mft_index_data[file_id_table[3].base_id + 1] =
          FirstTwo(<<file_id_table[1].file_id, file_id_table[2].file_id>>)

\* ---- C8 -------------------------------------------------------------------
\* C8 as stated: each raw pair changes at most the slot at its base_id, and
\* after a successful load each slot holds the first two distinct file_id
\* values of the pairs addressing it, smaller in base_id, larger in file_id.
C8_FirstTwoDistinct ==
    /\ [][OnlyAddressedSlotChanges]_vars
    /\ [](result = "Ok" =>
            \A k \in 1 .. Len(mft_index_data) :
                mft_index_data[k] = FirstTwoDistinct(NonZeroIds(k - 1, Len(file_id_table))))

\* C8 amended: each raw pair changes at most the slot at its base_id, and
\* after a successful load each slot holds the first two non-zero file_id
\* values (equal or not) of the pairs addressing it, smaller in base_id,
\* larger in file_id; a slot with a single non-zero value holds it in
\* base_id and a slot with none is (0,0).
C8_FirstTwoNonZero ==
    /\ [][OnlyAddressedSlotChanges]_vars
    /\ [](result = "Ok" =>
            \A k \in 1 .. Len(mft_index_data) :
                mft_index_data[k] = FirstTwo(NonZeroIds(k - 1, Len(file_id_table))))

\* a loaded archive with a slot whose first two non-zero values are equal
\* and which a zero file_id or a third value also addressed
C8_Witness ==
    /\ result = "Ok"
    /\ \E k \in 1 .. Len(mft_index_data) :
          LET ids == NonZeroIds(k - 1, Len(file_id_table))
          IN /\ Len(ids) >= 2
             /\ ids[1] = ids[2]
             /\ Cardinality(Addressing(k - 1, Len(file_id_table))) >= 3
             /\ mft_index_data[k] = [base_id |-> ids[1], file_id |-> ids[1]]

\* ---- C9 -------------------------------------------------------------------
IsPrefix(s, t) == Len(s) <= Len(t) /\ \A k \in 1 .. Len(s) : s[k] = t[k]

\* C9: the steps run in the order header, MFT header, MFT entries, index;
\* a load that finished without an archive ran no step after the failing one
\* and handed its caller an error value; an archive is returned only after
\* all four steps.
C9_FirstErrorReturned ==
    /\ IsPrefix(steps, LoadOrder)
    /\ (result = "Ok" => steps = LoadOrder)
    /\ ((pc = "done" /\ result # "Ok") => IsErr(result))

\* ---- C10 ------------------------------------------------------------------
\* C10: at every step of the fold, a slot with file_id # 0 has base_id # 0,
\* and a slot no folded pair addressed is (0,0).
C10_FileIdImpliesBaseId ==
    \A k \in 1 .. Len(mft_index_data) :
        /\ mft_index_data[k].file_id # 0 => mft_index_data[k].base_id # 0
        /\ Addressing(k - 1, i) = {} => mft_index_data[k] = Empty

\* a loaded archive with a slot holding a file_id and a slot never addressed
C10_Witness ==
    /\ result = "Ok"
    /\ \E k \in 1 .. Len(mft_index_data) : mft_index_data[k].file_id # 0
    /\ \E k \in 1 .. Len(mft_index_data) : Addressing(k - 1, i) = {}
====
